---------------------------- MODULE Spec2Model ----------------------------
(***************************************************************************)
(* The native renderer host of vgui (src/src/main.rs): the element arena,  *)
(* the tree index, the event table, the node-ops the script engine calls,  *)
(* and the per-frame tree walker with its event dispatch.                  *)
(*                                                                         *)
(* A Rust panic (a failed expect, a panic!, a RefCell borrow conflict)     *)
(* ends the process: the variable aborted records it and no operation      *)
(* runs afterwards.                                                        *)
(***************************************************************************)
EXTENDS Integers, Sequences, FiniteSets, TLC

(***************************************************************************)
(* Bounds of the model.                                                    *)
(***************************************************************************)
\* element ids range over 0..MaxId (ElementId = usize in the source)
MaxId == 2
\* number of operations of one run of the tree operations
TreeOps == 5
\* number of operations of one run of createElement and setElementText
ArenaOps == 3
\* number of operations of one run of createElement and patchProp
EventOps == 3
\* number of operations of one run of every node-op
AllOps == 3
\* number of operations of one run of patchProp and frames
WalkOps == 3
\* number of interactions the toolkit reports in one frame
MaxInteractions == 2
\* operations of a run with callbacks that issue node-ops
ReentryOps == 2
\* operations of a run that renders a built tree
RenderOps == 2
\* arrays and objects of a value graph handed to console.log
MaxObjs == 2
\* operations of a run that detaches and attaches bound elements
DetachOps == 3
\* operations of a run that creates elements again
RecreateOps == 2
\* operations of a run with bindings on containers
BubbleOps == 2
\* calls of a run of the script's adapter
AdapterOps == 4
\* operations of a run that builds a tree and walks it
LookupOps == 4

Ids == 0..MaxId

\* the anchor argument of insertElement when it is null or undefined
NoAnchor == -1

\* Value::Null, the result of parentNode and nextSibling when there is none
Null == -1

\* text payloads: the empty string of createElement and another
Texts == {"", "hi"}

(***************************************************************************)
(* enum Element                                                            *)
(***************************************************************************)
Root == [variant |-> "Root"]
Vertical == [variant |-> "Vertical"]
Horizontal == [variant |-> "Horizontal"]
Separator == [variant |-> "Separator"]
Hidden(t) == [variant |-> "Hidden", text |-> t]
Comment(t) == [variant |-> "Comment", text |-> t]
Label(t) == [variant |-> "Label", text |-> t]
Button(t) == [variant |-> "Button", text |-> t]
TextEdit(t) == [variant |-> "TextEdit", text |-> t]

\* the variants that carry a String
TextVariants == {"Hidden", "Comment", "Label", "Button", "TextEdit"}

\* the variants whose children render_element walks
ContainerVariants == {"Root", "Vertical", "Horizontal"}

\* struct Events: no callback bound
None == [kind |-> "none"]

NoEvents == [click |-> None, hover |-> None, input |-> None]

(***************************************************************************)
(* Values of the script engine that reach the host.  A function is known   *)
(* to the host only by what calling it does: it returns, it throws, it     *)
(* calls a node-op before it returns, or it queues a microtask that calls  *)
(* a node-op (the reactive scheduler of the script framework).             *)
(***************************************************************************)
JsNull == [kind |-> "null"]
JsString == [kind |-> "string"]
FnReturns == [kind |-> "function", body |-> "returns"]
FnThrows == [kind |-> "function", body |-> "throws"]

\* a function whose body calls the node-op cmd
FnCalls(cmd) == [kind |-> "function", body |-> "calls", cmd |-> cmd]
\* a function whose body queues a microtask that calls the node-op cmd
FnSchedules(cmd) == [kind |-> "function", body |-> "schedules", cmd |-> cmd]

JsFunctions == {FnReturns, FnThrows}
JsValues == {JsNull, JsString} \cup JsFunctions

\* Value::is_function
is_function(v) == v.kind = "function"

VARIABLES
    elements,           \* Elements: HashMap<ElementId, ElementRef>
    elements_children,  \* ElementsChildren: HashMap<ElementId, Vec<ElementId>>
    element_events,     \* ElementEvents: HashMap<ElementId, Events>
    aborted,            \* the process has panicked
    last,               \* the last operation: its name, arguments and result
    budget,             \* operations the run may still make
    nextId,             \* the script's counter of element ids
    idToElement         \* the script's Map from an id to its node object

vars == <<elements, elements_children, element_events, aborted, last, budget,
          nextId, idToElement>>

(***************************************************************************)
(* HashMap and Vec helpers.                                                *)
(***************************************************************************)
\* HashMap::insert: the entry at k is created or replaced
MapInsert(m, k, v) == [i \in DOMAIN m \cup {k} |-> IF i = k THEN v ELSE m[i]]

\* Vec::contains
Contains(s, x) == \E i \in 1..Len(s) : s[i] = x

\* Iterator::position: the 0-based index of the first x (x is in s)
Position(s, x) == (CHOOSE i \in 1..Len(s) : s[i] = x /\ \A j \in 1..(i - 1) : s[j] # x) - 1

\* Vec::insert(index, x), index 0-based
VecInsert(s, index, x) == SubSeq(s, 1, index) \o <<x>> \o SubSeq(s, index + 1, Len(s))

\* Vec::remove(index), index 0-based
VecRemove(s, index) == SubSeq(s, 1, index) \o SubSeq(s, index + 2, Len(s))

\* the parents whose child list holds child
ParentsOf(ch, child) == {p \in DOMAIN ch : Contains(ch[p], child)}

(***************************************************************************)
(* GuiApp::new: the arena holds the root, nothing else exists.             *)
(***************************************************************************)
\* the script before it has created a node: nextId = 1, the maps are empty
ScriptStart ==
    /\ nextId = 1
    /\ idToElement = [i \in {} |-> [id |-> i]]

Boot ==
    /\ ScriptStart
    /\ elements = [i \in {0} |-> Root]
    /\ elements_children = [i \in {} |-> <<>>]
    /\ element_events = [i \in {} |-> NoEvents]
    /\ aborted = FALSE
    /\ last = [op |-> "new"]

\* an operation runs while the process lives
Running == ~aborted /\ budget > 0

(***************************************************************************)
(* createElement(id, tag)                                                  *)
(***************************************************************************)
Tags == {"label", "vertical", "horizontal", "button", "hidden", "comment",
         "separator", "text-edit"}

\* ElementForTag with the "hidden" arm storing a Comment
ElementForTag_HiddenAsComment(tag) ==
    CASE tag = "label" -> Label("")
      [] tag = "vertical" -> Vertical
      [] tag = "horizontal" -> Horizontal
      [] tag = "button" -> Button("")
      [] tag = "hidden" -> Comment("")
      [] tag = "comment" -> Comment("")
      [] tag = "separator" -> Separator
      [] tag = "text-edit" -> TextEdit("")

\* the match on the tag string: the element stored for a known tag
ElementForTag(tag) ==
    CASE tag = "label" -> Label("")
      [] tag = "vertical" -> Vertical
      [] tag = "horizontal" -> Horizontal
      [] tag = "button" -> Button("")
      [] tag = "hidden" -> Hidden("")
      [] tag = "comment" -> Comment("")
      [] tag = "separator" -> Separator
      [] tag = "text-edit" -> TextEdit("")

\* createElement that also starts the element with no event bound
createElement_DropsBindings(id, tag) ==
    /\ Running
    /\ IF tag \in Tags
       THEN /\ elements' = MapInsert(elements, id, ElementForTag(tag))
            /\ element_events' = [i \in DOMAIN element_events \ {id} |-> element_events[i]]
            /\ last' = [op |-> "createElement", id |-> id, tag |-> tag,
                        ret |-> "ok", value |-> id]
       ELSE /\ elements' = elements
            /\ element_events' = element_events
            /\ last' = [op |-> "createElement", id |-> id, tag |-> tag,
                        ret |-> "err", value |-> "Unknown tag"]
    /\ budget' = budget - 1
    /\ UNCHANGED <<nextId, idToElement>>
    /\ UNCHANGED <<elements_children, aborted>>

createElement(id, tag) ==
    /\ Running
    /\ IF tag \in Tags
       THEN /\ elements' = MapInsert(elements, id, ElementForTag(tag))
            /\ last' = [op |-> "createElement", id |-> id, tag |-> tag,
                        ret |-> "ok", value |-> id]
       ELSE /\ elements' = elements
            /\ last' = [op |-> "createElement", id |-> id, tag |-> tag,
                        ret |-> "err", value |-> "Unknown tag"]
    /\ budget' = budget - 1
    /\ UNCHANGED <<nextId, idToElement>>
    /\ UNCHANGED <<elements_children, element_events, aborted>>

(***************************************************************************)
(* insertElement(child, parent, anchor): rust_insert                       *)
(***************************************************************************)
\* AlreadyInserted with the scan of the other parents left out
AlreadyInserted_NoScan(ch, child) == FALSE

\* the loop that panics when some list already holds the child
AlreadyInserted(ch, child) == ParentsOf(ch, child) # {}

\* entry(parent).or_insert_with(Vec::new)
EntryOrEmpty(ch, parent) == IF parent \in DOMAIN ch THEN ch ELSE MapInsert(ch, parent, <<>>)

\* AnchorIndex that ignores the anchor and appends
AnchorIndex_Append(children, anchor) == Len(children)

\* anchor.map(position).unwrap_or(len): 0-based, the anchor is in the list
AnchorIndex(children, anchor) ==
    IF anchor = NoAnchor THEN Len(children) ELSE Position(children, anchor)

\* InsertResult without the lookup of the child in the arena
InsertResult_NoChildLookup(el, ch, child, parent, anchor) ==
    IF parent \notin DOMAIN el THEN [children |-> ch, ret |-> "panic"]
    ELSE IF AlreadyInserted(ch, child) THEN [children |-> ch, ret |-> "panic"]
    ELSE LET ch1 == EntryOrEmpty(ch, parent) IN
         IF anchor # NoAnchor /\ ~Contains(ch1[parent], anchor)
         THEN [children |-> ch1, ret |-> "panic"]
         ELSE [children |->
                   [ch1 EXCEPT ![parent] =
                       VecInsert(ch1[parent], AnchorIndex(ch1[parent], anchor), child)],
               ret |-> "ok"]

\* the tree index after the call and how the call ended
InsertResult(el, ch, child, parent, anchor) ==
    IF child \notin DOMAIN el THEN [children |-> ch, ret |-> "panic"]
    ELSE IF parent \notin DOMAIN el THEN [children |-> ch, ret |-> "panic"]
    ELSE IF AlreadyInserted(ch, child) THEN [children |-> ch, ret |-> "panic"]
    ELSE LET ch1 == EntryOrEmpty(ch, parent) IN
         IF anchor # NoAnchor /\ ~Contains(ch1[parent], anchor)
         THEN [children |-> ch1, ret |-> "panic"]
         ELSE [children |->
                   [ch1 EXCEPT ![parent] =
                       VecInsert(ch1[parent], AnchorIndex(ch1[parent], anchor), child)],
               ret |-> "ok"]

rust_insert(child, parent, anchor) ==
    /\ Running
    /\ LET r == InsertResult(elements, elements_children, child, parent, anchor) IN
       /\ elements_children' = r.children
       /\ aborted' = (r.ret = "panic")
       /\ last' = [op |-> "insertElement", child |-> child, parent |-> parent,
                   anchor |-> anchor, ret |-> r.ret]
    /\ budget' = budget - 1
    /\ UNCHANGED <<nextId, idToElement>>
    /\ UNCHANGED <<elements, element_events>>

(***************************************************************************)
(* removeElement(child): rust_remove                                       *)
(***************************************************************************)
\* RemoveChild that pops the last child instead of the one found
RemoveChild_Pop(children, child) == SubSeq(children, 1, Len(children) - 1)

\* the list without the first occurrence of the child
RemoveChild(children, child) == VecRemove(children, Position(children, child))

\* the loop finds the child under parent p (HashMap order: any parent that
\* holds it), removes it there and stops; then the lookups that may panic
RemoveResult(el, ch, child, p) ==
    LET ch1 == IF p = Null THEN ch
               ELSE [ch EXCEPT ![p] = RemoveChild(ch[p], child)] IN
    IF child \notin DOMAIN el THEN [children |-> ch1, ret |-> "panic"]
    ELSE IF p = Null \/ p \notin DOMAIN el THEN [children |-> ch1, ret |-> "panic"]
    ELSE [children |-> ch1, ret |-> "ok"]

rust_remove(child) ==
    /\ Running
    /\ \E p \in IF ParentsOf(elements_children, child) = {} THEN {Null}
                ELSE ParentsOf(elements_children, child) :
         LET r == RemoveResult(elements, elements_children, child, p) IN
         /\ elements_children' = r.children
         /\ aborted' = (r.ret = "panic")
         /\ last' = [op |-> "removeElement", child |-> child, ret |-> r.ret]
    /\ budget' = budget - 1
    /\ UNCHANGED <<nextId, idToElement>>
    /\ UNCHANGED <<elements, element_events>>

(***************************************************************************)
(* parentNode(node): rust_parent_node                                      *)
(***************************************************************************)
\* the values the loop over the parents can return (HashMap order)
ParentNodeResults(ch, node) ==
    IF ParentsOf(ch, node) = {} THEN {Null} ELSE ParentsOf(ch, node)

rust_parent_node(node) ==
    /\ Running
    /\ IF node \notin DOMAIN elements
       THEN /\ aborted' = TRUE
            /\ last' = [op |-> "parentNode", node |-> node, ret |-> "panic"]
       ELSE /\ aborted' = FALSE
            /\ \E v \in ParentNodeResults(elements_children, node) :
                 last' = [op |-> "parentNode", node |-> node, ret |-> "ok", value |-> v]
    /\ budget' = budget - 1
    /\ UNCHANGED <<nextId, idToElement>>
    /\ UNCHANGED <<elements, elements_children, element_events>>

(***************************************************************************)
(* nextSibling(node): rust_next_sibling                                    *)
(***************************************************************************)
\* NextSiblingResults that takes the child before the node
NextSiblingResults_Previous(ch, node) ==
    LET found == {ch[p][Position(ch[p], node)] :
                    p \in {q \in ParentsOf(ch, node) : Position(ch[q], node) > 0}} IN
    IF found = {} THEN {Null} ELSE found

\* the siblings the loop assigns: one for each list that holds the node
\* before its last place; the last assignment (HashMap order) is returned
NextSiblingResults(ch, node) ==
    LET found == {ch[p][Position(ch[p], node) + 2] :
                    p \in {q \in ParentsOf(ch, node) :
                             Position(ch[q], node) < Len(ch[q]) - 1}} IN
    IF found = {} THEN {Null} ELSE found

rust_next_sibling(node) ==
    /\ Running
    /\ IF node \notin DOMAIN elements
       THEN /\ aborted' = TRUE
            /\ last' = [op |-> "nextSibling", node |-> node, ret |-> "panic"]
       ELSE /\ aborted' = FALSE
            /\ \E v \in NextSiblingResults(elements_children, node) :
                 last' = [op |-> "nextSibling", node |-> node, ret |-> "ok", value |-> v]
    /\ budget' = budget - 1
    /\ UNCHANGED <<nextId, idToElement>>
    /\ UNCHANGED <<elements, elements_children, element_events>>

(***************************************************************************)
(* setElementText(element, text): rust_set_element_text                    *)
(***************************************************************************)
\* SetTextResult whose text arms return Ok and leave the text as it was
SetTextResult_KeepsText(e, text) ==
    IF e.variant \in TextVariants
    THEN [element |-> e, ret |-> "ok"]
    ELSE [element |-> e, ret |-> "err"]

\* SetTextResult whose default arm falls through to Ok
SetTextResult_NoError(e, text) ==
    IF e.variant \in TextVariants
    THEN [element |-> [variant |-> e.variant, text |-> text], ret |-> "ok"]
    ELSE [element |-> e, ret |-> "ok"]

\* the match on the element: the text-bearing variants take the text, the
\* others are left alone and the call returns Err
SetTextResult(e, text) ==
    IF e.variant \in TextVariants
    THEN [element |-> [variant |-> e.variant, text |-> text], ret |-> "ok"]
    ELSE [element |-> e, ret |-> "err"]

rust_set_element_text(id, text) ==
    /\ Running
    /\ IF id \notin DOMAIN elements
       THEN /\ aborted' = TRUE
            /\ elements' = elements
            /\ last' = [op |-> "setElementText", id |-> id, text |-> text,
                        ret |-> "panic"]
       ELSE LET r == SetTextResult(elements[id], text) IN
            /\ aborted' = FALSE
            /\ elements' = [elements EXCEPT ![id] = r.element]
            /\ last' = [op |-> "setElementText", id |-> id, text |-> text,
                        ret |-> r.ret]
    /\ budget' = budget - 1
    /\ UNCHANGED <<nextId, idToElement>>
    /\ UNCHANGED <<elements_children, element_events>>

(***************************************************************************)
(* patchProp(element, key, prev_value, next_value): rust_patch_prop        *)
(***************************************************************************)
EventKeys == {"onClick", "onHover", "onInput"}

\* a key that is no event
OtherKey == "style"

\* the Option<Function> stored for next_value
Binding(next) == IF is_function(next) THEN next ELSE None

\* PatchEvents whose onHover arm writes the click handle
PatchEvents_HoverWritesClick(events, key, next) ==
    CASE key = "onClick" -> [events EXCEPT !.click = Binding(next)]
      [] key = "onHover" -> [events EXCEPT !.click = Binding(next)]
      [] key = "onInput" -> [events EXCEPT !.input = Binding(next)]
      [] OTHER -> events

\* PatchEvents whose default arm clears the click handle
PatchEvents_OtherClearsClick(events, key, next) ==
    CASE key = "onClick" -> [events EXCEPT !.click = Binding(next)]
      [] key = "onHover" -> [events EXCEPT !.hover = Binding(next)]
      [] key = "onInput" -> [events EXCEPT !.input = Binding(next)]
      [] OTHER -> [events EXCEPT !.click = None]

\* the match on the key
PatchEvents(events, key, next) ==
    CASE key = "onClick" -> [events EXCEPT !.click = Binding(next)]
      [] key = "onHover" -> [events EXCEPT !.hover = Binding(next)]
      [] key = "onInput" -> [events EXCEPT !.input = Binding(next)]
      [] OTHER -> events

\* entry(element).or_insert_with(|| Events { None, None, None })
EventsOrEmpty(ev, id) == IF id \in DOMAIN ev THEN ev[id] ELSE NoEvents

rust_patch_prop(id, key, prev, next) ==
    /\ Running
    /\ IF id \notin DOMAIN elements
       THEN /\ aborted' = TRUE
            /\ element_events' = element_events
            /\ last' = [op |-> "patchProp", id |-> id, key |-> key, prev |-> prev,
                        next |-> next, ret |-> "panic"]
       ELSE /\ aborted' = FALSE
            /\ element_events' =
                 MapInsert(element_events, id,
                           PatchEvents(EventsOrEmpty(element_events, id), key, next))
            /\ last' = [op |-> "patchProp", id |-> id, key |-> key, prev |-> prev,
                        next |-> next, ret |-> "ok"]
    /\ budget' = budget - 1
    /\ UNCHANGED <<nextId, idToElement>>
    /\ UNCHANGED <<elements, elements_children>>

(***************************************************************************)
(* The frame: GuiApp::update, render_element(ui, 0), run_microtasks.       *)
(*                                                                         *)
(* What the toolkit reports in a frame is an input: a set of interactions  *)
(* <<id, kind, text>>, the widget emitted for element id being clicked,    *)
(* hovered, losing focus, or having text typed into it.  An interaction of *)
(* a widget that the frame does not emit is never seen.                    *)
(***************************************************************************)
InteractionKinds == {"clicked", "hovered", "lost_focus"}

\* what the user types into a text edit
TypedTexts == {"hi"}

\* the interactions of the widgets of the elements ids
Interactions(ids) ==
    {<<id, kind, "">> : id \in ids, kind \in InteractionKinds}
        \cup {<<id, "typed", t>> : id \in ids, t \in TypedTexts}

\* the subsets of S with at most n elements
RECURSIVE SubsetsUpTo(_, _)
SubsetsUpTo(S, n) ==
    IF n = 0 THEN {{}}
    ELSE LET smaller == SubsetsUpTo(S, n - 1) IN
         smaller \cup {T \cup {x} : T \in smaller, x \in S}

\* what the toolkit can report in a frame for the widgets of the elements ids
FrameInputs(ids) == SubsetsUpTo(Interactions(ids), MaxInteractions)

\* egui::Response of the widget emitted for id
Response(id, inp) ==
    [id |-> id,
     clicked |-> <<id, "clicked", "">> \in inp,
     hovered |-> <<id, "hovered", "">> \in inp,
     lost_focus |-> <<id, "lost_focus", "">> \in inp]

\* ui.text_edit_singleline(label): the text after the widget ran (one text
\* is typed in a frame, TypedTexts has no second)
EditedText(id, t, inp) ==
    IF \E x \in inp : x[1] = id /\ x[2] = "typed"
    THEN (CHOOSE x \in inp : x[1] = id /\ x[2] = "typed")[3]
    ELSE t

\* the walk so far: the arena, the tree index and the event table, what was
\* emitted (each widget with the response the toolkit gave for it), the
\* callbacks called, the node-ops that callbacks issued, the microtasks
\* queued, the elements whose RefCell is mutably borrowed, and whether it
\* has panicked
StartWalk(el) ==
    [el |-> el, ch |-> elements_children, ev |-> element_events,
     out |-> <<>>, calls |-> <<>>, ops |-> <<>>, pending |-> <<>>,
     borrowed |-> {}, panicked |-> FALSE]

Panic(w) == [w EXCEPT !.panicked = TRUE]

Emit(w, item) == [w EXCEPT !.out = Append(@, item)]

\* the node-ops a script can call, as values
CmdCreate(id, tag) == [op |-> "createElement", id |-> id, tag |-> tag]
CmdInsert(child, parent, anchor) ==
    [op |-> "insertElement", child |-> child, parent |-> parent, anchor |-> anchor]
CmdRemove(child) == [op |-> "removeElement", child |-> child]
CmdSetText(id, text) == [op |-> "setElementText", id |-> id, text |-> text]
CmdPatch(id, key, next) == [op |-> "patchProp", id |-> id, key |-> key, next |-> next]

\* RefCell::borrow_mut of a map that is borrowed panics (BorrowMutError)
Conflict(w) == [w |-> w, ret |-> "panic"]

\* the parent whose list holds the child (there is one at most), or Null
ParentOrNull(ch, child) ==
    IF ParentsOf(ch, child) = {} THEN Null ELSE CHOOSE p \in ParentsOf(ch, child) : TRUE

\* a node-op called while the walk is in the state w; elHeld, chHeld and
\* evHeld tell whether Elements, ElementsChildren and ElementEvents are
\* borrowed by render_element frames on the stack, w.borrowed are the
\* elements whose cell is mutably borrowed
NodeOp(w, c, elHeld, chHeld, evHeld) ==
    CASE c.op = "createElement" ->
           IF c.tag \notin Tags THEN [w |-> w, ret |-> "err"]
           ELSE IF elHeld THEN Conflict(w)
           ELSE [w |-> [w EXCEPT !.el = MapInsert(@, c.id, ElementForTag(c.tag))],
                 ret |-> "ok"]
      [] c.op = "insertElement" ->
           IF c.child \in DOMAIN w.el /\ c.parent \in DOMAIN w.el /\ chHeld
           THEN Conflict(w)
           ELSE LET r == InsertResult(w.el, w.ch, c.child, c.parent, c.anchor) IN
                [w |-> [w EXCEPT !.ch = r.children], ret |-> r.ret]
      [] c.op = "removeElement" ->
           IF chHeld THEN Conflict(w)
           ELSE LET r == RemoveResult(w.el, w.ch, c.child, ParentOrNull(w.ch, c.child)) IN
                [w |-> [w EXCEPT !.ch = r.children], ret |-> r.ret]
      [] c.op = "setElementText" ->
           IF c.id \notin DOMAIN w.el \/ c.id \in w.borrowed THEN Conflict(w)
           ELSE LET r == SetTextResult(w.el[c.id], c.text) IN
                [w |-> [w EXCEPT !.el[c.id] = r.element], ret |-> r.ret]
      [] c.op = "patchProp" ->
           IF c.id \notin DOMAIN w.el \/ c.id \in w.borrowed \/ evHeld THEN Conflict(w)
           ELSE [w |-> [w EXCEPT !.ev = MapInsert(@, c.id,
                                   PatchEvents(EventsOrEmpty(@, c.id), c.key, c.next))],
                 ret |-> "ok"]

\* how the same call ends when no traversal is running
Alone(w, c) == NodeOp([w EXCEPT !.borrowed = {}], c, FALSE, FALSE, FALSE).ret

\* a node-op called from a callback that render_element(ui, id) dispatches:
\* every frame on the stack holds Elements, the frames of the ancestors hold
\* ElementsChildren, the dispatching frame holds ElementEvents.  An Err of
\* the node-op is thrown in the script and makes the callback fail.
\* the walk after the call: the call is on record, a failed one panics
Reentered(r, id, c, alone) ==
    [r.w EXCEPT !.ops = Append(@, [cmd |-> c, from |-> id, at |-> "dispatch",
                                   ret |-> r.ret, alone |-> alone]),
                !.panicked = (r.ret # "ok")]

Reenter(w, id, c) ==
    Reentered(NodeOp(w, c, TRUE, w.borrowed # {id}, TRUE), id, c, Alone(w, c))

\* what the body of the called function does
Called(w, id, fn) ==
    CASE fn.body = "returns" -> w
      [] fn.body = "throws" -> Panic(w)
      [] fn.body = "calls" -> Reenter(w, id, fn.cmd)
      [] fn.body = "schedules" ->
           [w EXCEPT !.pending = Append(@, [cmd |-> fn.cmd, from |-> id])]

\* Call that drops the bindings of the element once its callback was called
Call_Once(w, id, key, fn, args) ==
    [w EXCEPT !.calls = Append(@, [id |-> id, key |-> key, args |-> args, fn |-> fn,
                                   threw |-> FALSE]),
              !.ev = MapInsert(@, id, NoEvents)]

\* Function::call(..).expect(..): the call is made and an Err panics
Call(w, id, key, fn, args) ==
    Called([w EXCEPT !.calls = Append(@, [id |-> id, key |-> key, args |-> args,
                                          fn |-> fn, threw |-> (fn.body = "throws")])],
           id, fn)

\* if let Some(click) = &events.click { if response.clicked() { .. } }
OnClick(w, id, events, fired) ==
    IF events.click # None /\ fired THEN Call(w, id, "onClick", events.click, <<>>) ELSE w

\* if let Some(hover) = &events.hover { if response.hovered() { .. } }
OnHover(w, id, events, r) ==
    IF w.panicked THEN w
    ELSE IF events.hover # None /\ r.hovered
    THEN Call(w, id, "onHover", events.hover, <<>>) ELSE w

\* if let Some(input) = &events.input { if let Element::TextEdit(label) .. }
OnInput(w, id, events, r) ==
    IF w.panicked THEN w
    ELSE IF /\ events.input # None
            /\ w.el[id].variant = "TextEdit"
            /\ r.lost_focus
    THEN Call(w, id, "onInput", events.input, <<w.el[id].text>>) ELSE w

\* DispatchOne whose click check reads response.hovered()
DispatchOne_ClickOnHover(w, id, events, r) ==
    OnInput(OnHover(OnClick(w, id, events, r.hovered), id, events, r), id, events, r)

\* the three event checks of one response
DispatchOne(w, id, events, r) ==
    OnInput(OnHover(OnClick(w, id, events, r.clicked), id, events, r), id, events, r)

\* for response in &responses
RECURSIVE DispatchFrom(_, _, _, _, _)
DispatchFrom(w, id, events, responses, i) ==
    IF i > Len(responses) \/ w.panicked THEN w
    ELSE DispatchFrom(DispatchOne(w, id, events, responses[i]), id, events, responses, i + 1)

\* Dispatch that hands the responses to the bindings of element MaxId
Dispatch_ToOther(w, id, responses) ==
    IF MaxId \in DOMAIN w.ev
    THEN DispatchFrom(w, MaxId, w.ev[MaxId], responses, 1)
    ELSE w

\* Dispatch that hands the responses to the bindings of element 1
Dispatch_ToFirst(w, id, responses) ==
    IF 1 \in DOMAIN w.ev
    THEN DispatchFrom(w, 1, w.ev[1], responses, 1)
    ELSE w

\* "Hook up events": the responses collected for id go to the bindings of id
Dispatch(w, id, responses) ==
    IF id \in DOMAIN w.ev
    THEN DispatchFrom(w, id, w.ev[id], responses, 1)
    ELSE w

RECURSIVE render_element(_, _, _)
RECURSIVE RenderChildren(_, _, _, _)
RECURSIVE Rest(_, _, _, _)
RECURSIVE RenderChildren_Reversed(_, _, _, _)

\* responses.extend(local_responses)
Extended(responses, rest) == [w |-> rest.w, responses |-> responses \o rest.responses]

\* the children after the i-th, rendered from where the i-th left the walk
Rest(r, children, i, inp) ==
    Extended(r.responses, RenderChildren(r.w, children, i + 1, inp))

\* RenderChildren that goes through the child list from its end
RenderChildren_Reversed(w, children, i, inp) ==
    IF i > Len(children) \/ w.panicked THEN [w |-> w, responses |-> <<>>]
    ELSE LET r == render_element(w, children[Len(children) + 1 - i], inp) IN
         Extended(r.responses, RenderChildren_Reversed(r.w, children, i + 1, inp))

\* for child_id in children: responses.extend(self.render_element(ui, *child_id))
RenderChildren(w, children, i, inp) ==
    IF i > Len(children) \/ w.panicked THEN [w |-> w, responses |-> <<>>]
    ELSE Rest(render_element(w, children[i], inp), children, i, inp)

\* a container keeps the scope open while its children are rendered
CloseScope(r, id, scope) ==
    IF r.w.panicked THEN r
    ELSE [w |-> Emit(r.w, [prim |-> "close", id |-> id, scope |-> scope]),
          responses |-> r.responses]

\* the match on the element: what is emitted and the responses collected
RenderVariant(w, id, inp) ==
    LET e == w.el[id]
        children == IF id \in DOMAIN w.ch THEN w.ch[id] ELSE <<>>
    IN CASE e.variant = "Root" -> RenderChildren(w, children, 1, inp)
         [] e.variant \in {"Vertical", "Horizontal"} ->
              CloseScope(RenderChildren(Emit(w, [prim |-> "open", id |-> id,
                                                 scope |-> e.variant]),
                                        children, 1, inp),
                         id, e.variant)
         [] e.variant \in {"Label", "Button"} ->
              [w |-> Emit(w, [prim |-> e.variant, id |-> id, text |-> e.text,
                              response |-> Response(id, inp)]),
               responses |-> <<Response(id, inp)>>]
         [] e.variant \in {"Hidden", "Comment"} -> [w |-> w, responses |-> <<>>]
         [] e.variant = "Separator" ->
              [w |-> Emit(w, [prim |-> "Separator", id |-> id]), responses |-> <<>>]
         [] e.variant = "TextEdit" ->
              LET t == EditedText(id, e.text, inp) IN
              [w |-> Emit([w EXCEPT !.el[id] = TextEdit(t)],
                          [prim |-> "TextEdit", id |-> id, text |-> t,
                           response |-> Response(id, inp)]),
               responses |-> <<Response(id, inp)>>]

\* the borrow of the element ends when render_element returns
Release(w, id) == [w EXCEPT !.borrowed = @ \ {id}]

\* after the match: the dispatch, unless the walk below has panicked
HookUp(r, id) ==
    IF r.w.panicked THEN r
    ELSE [w |-> Release(Dispatch(r.w, id, r.responses), id), responses |-> r.responses]

\* render_element(ui, element_id): the lookup and the borrow_mut that may
\* panic, the match, the dispatch; returns the responses to the caller
render_element(w, id, inp) ==
    IF id \notin DOMAIN w.el \/ id \in w.borrowed
    THEN [w |-> Panic(w), responses |-> <<>>]
    ELSE HookUp(RenderVariant([w EXCEPT !.borrowed = @ \cup {id}], id, inp), id)

\* one queued microtask runs: nothing is borrowed by the host; an Err of the
\* node-op rejects the job and the engine goes on, a panic ends the process
\* the walk after the job: the node-op is on record
Ran(r, t) ==
    [r.w EXCEPT !.ops = Append(@, [cmd |-> t.cmd, from |-> t.from, at |-> "microtask",
                                   ret |-> r.ret, alone |-> r.ret]),
                !.panicked = (r.ret = "panic")]

RunTask(w, t) == Ran(NodeOp(w, t.cmd, FALSE, FALSE, FALSE), t)

RECURSIVE Drain(_, _)
Drain(w, i) ==
    IF i > Len(w.pending) \/ w.panicked THEN [w EXCEPT !.pending = <<>>]
    ELSE Drain(RunTask(w, w.pending[i]), i + 1)

\* run_microtasks that returns without running the queue
run_microtasks_NoFlush(w) == w

\* isolate.run_microtasks(): the queued jobs run in order until none is left
run_microtasks(w) == Drain(w, 1)

\* the host after the frame
EndFrame(w) ==
    /\ elements' = w.el
    /\ elements_children' = w.ch
    /\ element_events' = w.ev
    /\ aborted' = w.panicked
    /\ last' = [op |-> "update", out |-> w.out, calls |-> w.calls, ops |-> w.ops,
                ret |-> IF w.panicked THEN "panic" ELSE "ok"]

update(inp) ==
    /\ Running
    /\ EndFrame(run_microtasks(render_element(StartWalk(elements), 0, inp).w))
    /\ budget' = budget - 1
    /\ UNCHANGED <<nextId, idToElement>>

(***************************************************************************)
(* The tree operations alone, with two tags.                               *)
(***************************************************************************)
TreeTags == {"vertical", "label"}

NextTree ==
    \/ \E id \in Ids, tag \in TreeTags : createElement(id, tag)
    \/ \E child \in Ids, parent \in Ids, anchor \in Ids \cup {NoAnchor} :
         rust_insert(child, parent, anchor)
    \/ \E child \in Ids : rust_remove(child)
    \/ \E node \in Ids : rust_parent_node(node)
    \/ \E node \in Ids : rust_next_sibling(node)

InitTree == Boot /\ budget = TreeOps

SpecTree == InitTree /\ [][NextTree]_vars

(***************************************************************************)
(* The tags createElement is called with: the vocabulary and two strings   *)
(* outside it.                                                             *)
(***************************************************************************)
TagInputs == Tags \cup {"div", "root"}

(***************************************************************************)
(* createElement with every tag and setElementText.                        *)
(***************************************************************************)
NextArena ==
    \/ \E id \in Ids, tag \in TagInputs : createElement(id, tag)
    \/ \E id \in Ids, text \in Texts : rust_set_element_text(id, text)

InitArena == Boot /\ budget = ArenaOps

SpecArena == InitArena /\ [][NextArena]_vars

(***************************************************************************)
(* createElement and patchProp.                                            *)
(***************************************************************************)
NextEvents ==
    \/ \E id \in Ids : createElement(id, "button")
    \/ \E id \in Ids, key \in EventKeys \cup {OtherKey}, prev \in JsValues, next \in JsValues :
         rust_patch_prop(id, key, prev, next)

InitEvents == Boot /\ budget = EventOps

SpecEvents == InitEvents /\ [][NextEvents]_vars

(***************************************************************************)
(* Frames and patchProp on a tree the node-ops have built: the elements    *)
(* 1..MaxId created with some tags, then inserted one after the other as   *)
(* children of the root or as a chain below it.                            *)
(***************************************************************************)
WalkTags == {"vertical", "button", "text-edit"}

\* insertElement(i, 0, null) for every i
SiblingScript == [i \in 1..MaxId |-> <<i, 0, NoAnchor>>]

\* insertElement(i, i - 1, null) for every i
ChainScript == [i \in 1..MaxId |-> <<i, i - 1, NoAnchor>>]

\* the tree index after the inserts of the script, from the i-th on
RECURSIVE AfterInserts(_, _, _, _)
AfterInserts(el, ch, script, i) ==
    IF i > Len(script) THEN ch
    ELSE AfterInserts(el, InsertResult(el, ch, script[i][1], script[i][2], script[i][3]).children,
                      script, i + 1)

\* the root of these runs stays a Root, which emits no widget
WalkInputs == FrameInputs(Ids \ {0})

InitWalk ==
    /\ \E tags \in [1..MaxId -> WalkTags] :
         elements = [i \in Ids |-> IF i = 0 THEN Root ELSE ElementForTag(tags[i])]
    /\ \E script \in {SiblingScript, ChainScript} :
         /\ elements_children = AfterInserts(elements, [i \in {} |-> <<>>], script, 1)
         /\ last = [op |-> "insertElement", child |-> script[MaxId][1],
                    parent |-> script[MaxId][2], anchor |-> script[MaxId][3], ret |-> "ok"]
    /\ element_events = [i \in {} |-> NoEvents]
    /\ aborted = FALSE
    /\ budget = WalkOps
    /\ ScriptStart

NextWalk ==
    \/ \E id \in Ids, key \in EventKeys, next \in JsFunctions :
         rust_patch_prop(id, key, JsNull, next)
    \/ \E inp \in WalkInputs : update(inp)

SpecWalk == InitWalk /\ [][NextWalk]_vars

(***************************************************************************)
(* Callbacks that call back into the node-ops: a tree of containers and    *)
(* labels, onClick bound to functions that call a node-op or queue one as  *)
(* a microtask, frames with clicks.                                        *)
(***************************************************************************)
ReentryTags == {"vertical", "label"}

\* the node-ops the callbacks of these runs issue
ReentryCmds ==
    {CmdCreate(MaxId, "label"), CmdInsert(MaxId, 0, NoAnchor), CmdRemove(MaxId),
     CmdPatch(MaxId, "onHover", FnReturns)}
        \cup {CmdSetText(id, "hi") : id \in 1..MaxId}

\* the callbacks of these runs: they call a node-op, queue one, or only return
ReentryFunctions ==
    {FnCalls(c) : c \in ReentryCmds} \cup {FnSchedules(c) : c \in ReentryCmds}
        \cup {FnReturns}

\* frames in which some of the widgets are clicked
ClickInputs == SubsetsUpTo({<<id, "clicked", "">> : id \in Ids \ {0}}, MaxInteractions)

InitReentry ==
    /\ \E tags \in [1..MaxId -> ReentryTags] :
         elements = [i \in Ids |-> IF i = 0 THEN Root ELSE ElementForTag(tags[i])]
    /\ \E script \in {SiblingScript, ChainScript} :
         /\ elements_children = AfterInserts(elements, [i \in {} |-> <<>>], script, 1)
         /\ last = [op |-> "insertElement", child |-> script[MaxId][1],
                    parent |-> script[MaxId][2], anchor |-> script[MaxId][3], ret |-> "ok"]
    /\ element_events = [i \in {} |-> NoEvents]
    /\ aborted = FALSE
    /\ budget = ReentryOps
    /\ ScriptStart

NextReentry ==
    \/ \E id \in Ids, next \in ReentryFunctions : rust_patch_prop(id, "onClick", JsNull, next)
    \/ \E inp \in ClickInputs : update(inp)

SpecReentry == InitReentry /\ [][NextReentry]_vars

(***************************************************************************)
(* Rendering: a tree built from every tag, setElementText, frames in which *)
(* text is typed.  No callback is bound.                                   *)
(***************************************************************************)
\* frames in which text is typed into some of the widgets
TypedInputs ==
    SubsetsUpTo({<<id, "typed", t>> : id \in Ids \ {0}, t \in TypedTexts}, MaxInteractions)

InitRender ==
    /\ \E tags \in [1..MaxId -> Tags] :
         elements = [i \in Ids |-> IF i = 0 THEN Root ELSE ElementForTag(tags[i])]
    /\ \E script \in {SiblingScript, ChainScript} :
         /\ elements_children = AfterInserts(elements, [i \in {} |-> <<>>], script, 1)
         /\ last = [op |-> "insertElement", child |-> script[MaxId][1],
                    parent |-> script[MaxId][2], anchor |-> script[MaxId][3], ret |-> "ok"]
    /\ element_events = [i \in {} |-> NoEvents]
    /\ aborted = FALSE
    /\ budget = RenderOps
    /\ ScriptStart

NextRender ==
    \/ \E id \in Ids, text \in Texts : rust_set_element_text(id, text)
    \/ \E inp \in TypedInputs : update(inp)

SpecRender == InitRender /\ [][NextRender]_vars

(***************************************************************************)
(* Detaching: a tree of containers and buttons, every element with onClick *)
(* bound to a function that returns; removeElement, insertElement, frames  *)
(* with clicks.                                                            *)
(***************************************************************************)
DetachTags == {"vertical", "button"}

\* patchProp(id, "onClick", null, f) was called for every element
AllClickBound ==
    [i \in Ids |-> PatchEvents(EventsOrEmpty([j \in {} |-> NoEvents], i), "onClick", FnReturns)]

InitDetach ==
    /\ \E tags \in [1..MaxId -> DetachTags] :
         elements = [i \in Ids |-> IF i = 0 THEN Root ELSE ElementForTag(tags[i])]
    /\ \E script \in {SiblingScript, ChainScript} :
         elements_children = AfterInserts(elements, [i \in {} |-> <<>>], script, 1)
    /\ element_events = AllClickBound
    /\ last = [op |-> "patchProp", id |-> MaxId, key |-> "onClick", prev |-> JsNull,
                next |-> FnReturns, ret |-> "ok"]
    /\ aborted = FALSE
    /\ budget = DetachOps
    /\ ScriptStart

NextDetach ==
    \/ \E child \in Ids : rust_remove(child)
    \/ \E child \in Ids, parent \in Ids : rust_insert(child, parent, NoAnchor)
    \/ \E inp \in ClickInputs : update(inp)

SpecDetach == InitDetach /\ [][NextDetach]_vars

(***************************************************************************)
(* Creating again: on a tree of containers and buttons with onClick bound  *)
(* on every element, createElement with every tag and setElementText.      *)
(***************************************************************************)
InitRecreate ==
    /\ \E tags \in [1..MaxId -> DetachTags] :
         elements = [i \in Ids |-> IF i = 0 THEN Root ELSE ElementForTag(tags[i])]
    /\ \E script \in {SiblingScript, ChainScript} :
         elements_children = AfterInserts(elements, [i \in {} |-> <<>>], script, 1)
    /\ element_events = AllClickBound
    /\ last = [op |-> "patchProp", id |-> MaxId, key |-> "onClick", prev |-> JsNull,
                next |-> FnReturns, ret |-> "ok"]
    /\ aborted = FALSE
    /\ budget = RecreateOps
    /\ ScriptStart

NextRecreate ==
    \/ \E id \in Ids, tag \in TagInputs : createElement(id, tag)
    \/ \E id \in Ids, text \in Texts : rust_set_element_text(id, text)

SpecRecreate == InitRecreate /\ [][NextRecreate]_vars

(***************************************************************************)
(* Bindings on containers: a tree of containers and buttons, every element *)
(* with onClick and onHover bound to a function that returns; patchProp    *)
(* that unbinds or binds a function that throws, frames with clicks and    *)
(* hovers.                                                                 *)
(***************************************************************************)
\* patchProp(id, "onClick", null, f) and patchProp(id, "onHover", null, f)
\* were called for every element
AllPointerBound ==
    [i \in Ids |-> PatchEvents(AllClickBound[i], "onHover", FnReturns)]

\* frames in which some of the widgets are clicked or hovered
PointerInputs ==
    SubsetsUpTo({<<id, kind, "">> : id \in Ids \ {0}, kind \in {"clicked", "hovered"}},
                MaxInteractions)

InitBubble ==
    /\ \E tags \in [1..MaxId -> DetachTags] :
         elements = [i \in Ids |-> IF i = 0 THEN Root ELSE ElementForTag(tags[i])]
    /\ \E script \in {SiblingScript, ChainScript} :
         elements_children = AfterInserts(elements, [i \in {} |-> <<>>], script, 1)
    /\ element_events = AllPointerBound
    /\ last = [op |-> "patchProp", id |-> MaxId, key |-> "onHover", prev |-> JsNull,
                next |-> FnReturns, ret |-> "ok"]
    /\ aborted = FALSE
    /\ budget = BubbleOps
    /\ ScriptStart

NextBubble ==
    \/ \E id \in Ids, key \in {"onClick", "onHover"}, next \in {JsNull, FnThrows} :
         rust_patch_prop(id, key, FnReturns, next)
    \/ \E inp \in PointerInputs : update(inp)

SpecBubble == InitBubble /\ [][NextBubble]_vars

(***************************************************************************)
(* The script's adapter, nodeOps: the framework calls it with the node     *)
(* objects it was handed, and the adapter calls the host's node-ops.  A    *)
(* node object is { id: n }.  The framework inserts the nodes it created,  *)
(* below root or another node, before a node it created or at the end.     *)
(***************************************************************************)
\* the value undefined of the script
Undefined == [kind |-> "undefined"]

\* the node object { id: n }
Node(n) == [id |-> n]

\* const root = { id: 0 }
root == Node(0)

\* the node objects the framework holds: root, which it was mounted on, and
\* what createElement, createText and createComment returned
Handed == {root} \cup {Node(i) : i \in (1..(nextId - 1)) \cap DOMAIN elements}

\* getElementById(id): idToElement.get(id)
getElementById(map, id) == IF id \in DOMAIN map THEN map[id] ELSE Undefined

\* anchor?.id
AnchorId(anchor) == IF anchor = Undefined THEN NoAnchor ELSE anchor.id

\* nodeOps.createElement(tag): the host's Err for an unknown tag is thrown
\* before the maps are set
nodeOps_createElement(tag) ==
    /\ Running
    /\ nextId <= MaxId
    /\ nextId' = nextId + 1
    /\ IF tag \in Tags
       THEN /\ elements' = MapInsert(elements, nextId, ElementForTag(tag))
            /\ idToElement' = MapInsert(idToElement, nextId, Node(nextId))
            /\ last' = [op |-> "nodeOps.createElement", tag |-> tag, ret |-> "ok",
                        value |-> Node(nextId)]
       ELSE /\ elements' = elements
            /\ idToElement' = idToElement
            /\ last' = [op |-> "nodeOps.createElement", tag |-> tag, ret |-> "err",
                        value |-> Undefined]
    /\ budget' = budget - 1
    /\ UNCHANGED <<elements_children, element_events, aborted>>

\* nodeOps.createText(text) and nodeOps.createComment(text): createElement
\* with the tag 'hidden' or 'comment', then setElementText
nodeOps_createText(op, tag, text) ==
    /\ Running
    /\ nextId <= MaxId
    /\ nextId' = nextId + 1
    /\ elements' = MapInsert(elements, nextId, SetTextResult(ElementForTag(tag), text).element)
    /\ last' = [op |-> op, text |-> text, ret |-> "ok", value |-> Node(nextId)]
    /\ budget' = budget - 1
    /\ UNCHANGED <<elements_children, element_events, aborted, idToElement>>

\* nodeOps.insert(child, parent, anchor)
nodeOps_insert(child, parent, anchor) ==
    /\ Running
    /\ LET r == InsertResult(elements, elements_children, child.id, parent.id,
                             AnchorId(anchor)) IN
       /\ elements_children' = r.children
       /\ aborted' = (r.ret = "panic")
       /\ last' = [op |-> "nodeOps.insert", child |-> child, parent |-> parent,
                   anchor |-> anchor, ret |-> r.ret]
    /\ budget' = budget - 1
    /\ UNCHANGED <<elements, element_events, nextId, idToElement>>

\* nodeOps.parentNode(node): getElementById(parentNode(node.id))
nodeOps_parentNode(node) ==
    /\ Running
    /\ \E v \in ParentNodeResults(elements_children, node.id) :
         last' = [op |-> "nodeOps.parentNode", node |-> node, ret |-> "ok",
                  host |-> v, value |-> getElementById(idToElement, v)]
    /\ budget' = budget - 1
    /\ UNCHANGED <<elements, elements_children, element_events, aborted, nextId,
                   idToElement>>

\* nodeOps.nextSibling(node): getElementById(nextSibling(node.id))
nodeOps_nextSibling(node) ==
    /\ Running
    /\ \E v \in NextSiblingResults(elements_children, node.id) :
         last' = [op |-> "nodeOps.nextSibling", node |-> node, ret |-> "ok",
                  host |-> v, value |-> getElementById(idToElement, v)]
    /\ budget' = budget - 1
    /\ UNCHANGED <<elements, elements_children, element_events, aborted, nextId,
                   idToElement>>

InitAdapter == Boot /\ budget = AdapterOps

NextAdapter ==
    \/ \E tag \in TagInputs : nodeOps_createElement(tag)
    \/ \E text \in Texts : nodeOps_createText("nodeOps.createText", "hidden", text)
    \/ \E text \in Texts : nodeOps_createText("nodeOps.createComment", "comment", text)
    \/ \E child \in Handed \ {root} :
         \E parent \in Handed \ {child}, anchor \in (Handed \ {root, child}) \cup {Undefined} :
            nodeOps_insert(child, parent, anchor)
    \/ \E node \in Handed : nodeOps_parentNode(node)
    \/ \E node \in Handed : nodeOps_nextSibling(node)

SpecAdapter == InitAdapter /\ [][NextAdapter]_vars

(***************************************************************************)
(* Building and walking: createElement, insertElement, removeElement from  *)
(* GuiApp::new on, and frames in which the toolkit reports nothing.        *)
(***************************************************************************)
\* a frame without interactions
QuietInputs == {{}}

InitLookup == Boot /\ budget = LookupOps

NextLookup ==
    \/ \E id \in Ids, tag \in TreeTags : createElement(id, tag)
    \/ \E child \in Ids, parent \in Ids, anchor \in Ids \cup {NoAnchor} :
         rust_insert(child, parent, anchor)
    \/ \E child \in Ids : rust_remove(child)
    \/ \E inp \in QuietInputs : update(inp)

SpecLookup == InitLookup /\ [][NextLookup]_vars

(***************************************************************************)
(* console.log: value_to_string.                                           *)
(*                                                                         *)
(* A value graph is a heap of arrays and objects 1..MaxObjs, each with the *)
(* list of its members; a member is a value that is no array or object     *)
(* (null stands for them, 0 here) or one of 1..MaxObjs.  The keys of an    *)
(* object are                                                              *)
(* the first of Keys.  hash is Value::hash, the identity hash of the       *)
(* engine, which two objects may share.  The text is kept as its tokens;   *)
(* colours, indentation and line breaks are left out.                      *)
(***************************************************************************)
ObjIds == 1..MaxObjs

JsLeaf == 0

Keys == <<"a", "b">>

\* the member lists: at most Len(Keys) values
MemberLists ==
    UNION {[1..n -> {JsLeaf} \cup ObjIds] : n \in 0..Len(Keys)}

Heaps == [ObjIds -> [kind : {"array", "object"}, members : MemberLists]]

\* the deepest nesting of arrays and objects that repeats none of them
MaxDepth == MaxObjs

CircularMarker == "[Circular]"

\* seen.contains(&value_hash) that never finds the hash
Seen_Never(seen, h) == FALSE

\* seen.contains(&value_hash)
Seen(seen, h) == h \in seen

RECURSIVE value_to_string(_, _, _, _, _)
RECURSIVE Members(_, _, _, _, _, _)

\* the loop over the items of an array or the keys of an object
Members(heap, hash, v, i, seen, fuel) ==
    LET node == heap[v] IN
    IF i > Len(node.members)
    THEN [out |-> <<>>, seen |-> seen, expanded |-> <<>>, cut |-> FALSE]
    ELSE LET r == value_to_string(heap, hash, node.members[i], seen, fuel) IN
         IF r.cut THEN r
         ELSE LET rest == Members(heap, hash, v, i + 1, r.seen, fuel) IN
              [out |-> (IF node.kind = "object" THEN <<Keys[i], ":">> ELSE <<>>)
                          \o r.out
                          \o (IF i < Len(node.members) THEN <<",">> ELSE <<>>)
                          \o rest.out,
               seen |-> rest.seen,
               expanded |-> r.expanded \o rest.expanded,
               cut |-> rest.cut]

\* value_to_string(isolate, value, depth, seen, member): the text, the set
\* seen after the call, the arrays and objects expanded in the order they
\* were, and cut when the nesting went deeper than fuel (the call is then
\* still running)
value_to_string(heap, hash, v, seen, fuel) ==
    IF v = JsLeaf
    THEN [out |-> <<"null">>, seen |-> seen, expanded |-> <<>>, cut |-> FALSE]
    ELSE IF Seen(seen, hash[v])
    THEN [out |-> <<CircularMarker>>, seen |-> seen, expanded |-> <<>>, cut |-> FALSE]
    ELSE IF fuel = 0
    THEN [out |-> <<>>, seen |-> seen, expanded |-> <<>>, cut |-> TRUE]
    ELSE LET seen1 == seen \cup {hash[v]}
             open == IF heap[v].kind = "array" THEN "[" ELSE "{"
             close == IF heap[v].kind = "array" THEN "]" ELSE "}"
         IN IF heap[v].members = <<>>
            THEN [out |-> <<open, close>>, seen |-> seen1, expanded |-> <<v>>,
                  cut |-> FALSE]
            ELSE LET r == Members(heap, hash, v, 1, seen1, fuel - 1) IN
                 [out |-> <<open>> \o r.out \o <<close>>, seen |-> r.seen,
                  expanded |-> <<v>> \o r.expanded, cut |-> r.cut]

\* console.log(value): the script holds a value graph and logs the array
\* or object 1 of it
InitInspect ==
    /\ elements = [i \in {0} |-> Root]
    /\ elements_children = [i \in {} |-> <<>>]
    /\ element_events = [i \in {} |-> NoEvents]
    /\ aborted = FALSE
    /\ budget = 0
    /\ ScriptStart
    /\ \E heap \in Heaps, hash \in [ObjIds -> ObjIds] :
         last = [op |-> "script", heap |-> heap, hash |-> hash, value |-> 1]

\* rust_log: value_to_string(&isolate, arg, 0, &mut HashSet::new(), false)
rust_log ==
    /\ ~aborted
    /\ last.op = "script"
    /\ LET r == value_to_string(last.heap, last.hash, last.value, {}, MaxDepth) IN
       last' = [op |-> "log", heap |-> last.heap, hash |-> last.hash,
                value |-> last.value, out |-> r.out, expanded |-> r.expanded,
                returned |-> ~r.cut]
    /\ UNCHANGED <<elements, elements_children, element_events, aborted, budget>>
    /\ UNCHANGED <<nextId, idToElement>>

SpecInspect == InitInspect /\ [][rust_log]_vars

(***************************************************************************)
(* The whole host: every node-op and the frame, from GuiApp::new.          *)
(***************************************************************************)
Init == Boot /\ budget = AllOps

Next ==
    \/ \E id \in Ids, tag \in TagInputs : createElement(id, tag)
    \/ \E child \in Ids, parent \in Ids, anchor \in Ids \cup {NoAnchor} :
         rust_insert(child, parent, anchor)
    \/ \E child \in Ids : rust_remove(child)
    \/ \E id \in Ids, text \in Texts : rust_set_element_text(id, text)
    \/ \E node \in Ids : rust_parent_node(node)
    \/ \E node \in Ids : rust_next_sibling(node)
    \/ \E id \in Ids, key \in EventKeys \cup {OtherKey}, prev \in JsValues, next \in JsValues :
         rust_patch_prop(id, key, prev, next)
    \/ \E inp \in FrameInputs(Ids) : update(inp)

Spec == Init /\ [][Next]_vars

(***************************************************************************)
(* Notions the properties are stated in.                                   *)
(***************************************************************************)
\* the places of x in the list s
Occurrences(s, x) == {i \in 1..Len(s) : s[i] = x}

\* the child list of p, empty when the tree index has no entry for p
ChildList(ch, p) == IF p \in DOMAIN ch THEN ch[p] ELSE <<>>

\* the list s without every x
Without(s, x) == SelectSeq(s, LAMBDA y : y # x)

\* the binding of id for a key, absent when the event table has no entry
BindingOf(ev, id, key) ==
    IF id \notin DOMAIN ev THEN None
    ELSE CASE key = "onClick" -> ev[id].click
           [] key = "onHover" -> ev[id].hover
           [] key = "onInput" -> ev[id].input

\* the three stores of the host are left as they were
HostUnchanged == UNCHANGED <<elements, elements_children, element_events>>

(***************************************************************************)
(* C1.  While the process has not aborted, every element id is in at most  *)
(* one parent's child list, and at most once in that list.                 *)
(***************************************************************************)
C1_SingleParent ==
    ~aborted =>
        \A id \in Ids :
            /\ Cardinality({p \in DOMAIN elements_children :
                              Occurrences(elements_children[p], id) # {}}) <= 1
            /\ \A p \in DOMAIN elements_children :
                 Cardinality(Occurrences(elements_children[p], id)) <= 1

\* an insert has succeeded and two parents hold children
C1_Witness ==
    /\ ~aborted
    /\ last.op = "insertElement"
    /\ last.ret = "ok"
    /\ Cardinality({p \in DOMAIN elements_children : elements_children[p] # <<>>}) >= 2

(***************************************************************************)
(* C2.  A successful insertElement(child, parent, anchor) puts the child   *)
(* immediately before the anchor, or at the end of the parent's list when  *)
(* there is no anchor; the parent's previous children keep their order and *)
(* no other parent's list changes.                                         *)
(***************************************************************************)
C2_InsertPlaces ==
    [][(last'.op = "insertElement" /\ last'.ret = "ok") =>
         LET c == last'.child
             p == last'.parent
             a == last'.anchor
             old == ChildList(elements_children, p)
             new == elements_children'[p]
         IN /\ Len(new) = Len(old) + 1
            /\ IF a = NoAnchor
               THEN new[Len(new)] = c
               ELSE \E i \in 1..(Len(new) - 1) : new[i] = c /\ new[i + 1] = a
            /\ Without(new, c) = old
            /\ DOMAIN elements_children' = DOMAIN elements_children \cup {p}
            /\ \A q \in DOMAIN elements_children \ {p} :
                 elements_children'[q] = elements_children[q]
      ]_vars

\* an insert before an anchor that is not the first child has succeeded
C2_Witness ==
    /\ last.op = "insertElement"
    /\ last.ret = "ok"
    /\ last.anchor # NoAnchor
    /\ Position(elements_children[last.parent], last.child) >= 1

(***************************************************************************)
(* C3.  removeElement(child) on a child that has a parent succeeds, after  *)
(* it no child list holds the child, and a parentNode(child) that follows  *)
(* returns null.                                                           *)
(***************************************************************************)
C3_RemoveDetaches ==
    [][/\ (last'.op = "removeElement" /\ ParentsOf(elements_children, last'.child) # {}) =>
            /\ last'.ret = "ok"
            /\ ~aborted'
            /\ \A p \in DOMAIN elements_children' :
                 Occurrences(elements_children'[p], last'.child) = {}
       /\ (/\ last.op = "removeElement"
           /\ last.ret = "ok"
           /\ last'.op = "parentNode"
           /\ last'.node = last.child) =>
            /\ last'.ret = "ok"
            /\ last'.value = Null
      ]_vars

\* a child was removed while some list still holds a child
C3_Witness ==
    /\ last.op = "removeElement"
    /\ last.ret = "ok"
    /\ \E p \in DOMAIN elements_children : elements_children[p] # <<>>

(***************************************************************************)
(* C4.  insertElement of a child that some child list already holds        *)
(* returns an error to the caller, does not abort the process and leaves   *)
(* the tree index unchanged.                                               *)
(***************************************************************************)
C4_AlreadyParentedIsAnError ==
    [][(/\ last'.op = "insertElement"
        /\ last'.child \in DOMAIN elements
        /\ last'.parent \in DOMAIN elements
        /\ ParentsOf(elements_children, last'.child) # {}) =>
         /\ last'.ret = "err"
         /\ ~aborted'
         /\ elements_children' = elements_children
      ]_vars

(***************************************************************************)
(* C5.  A node-op called with an id that has no arena entry returns an     *)
(* error to its caller, does not abort the process and leaves the arena,   *)
(* the tree index and the event table unchanged.                           *)
(***************************************************************************)
\* the ids the operation recorded in r looks up in the arena
LookedUp(r) ==
    CASE r.op = "insertElement" -> {r.child, r.parent}
      [] r.op = "removeElement" -> {r.child}
      [] r.op \in {"setElementText", "patchProp"} -> {r.id}
      [] r.op \in {"parentNode", "nextSibling"} -> {r.node}
      [] OTHER -> {}

C5_UnknownIdIsAnError ==
    [][(LookedUp(last') \ DOMAIN elements # {}) =>
         /\ last'.ret = "err"
         /\ ~aborted'
         /\ HostUnchanged
      ]_vars

(***************************************************************************)
(* C6.  setElementText on a Vertical, Horizontal, Separator or Root        *)
(* element returns an error to the caller and leaves the arena, the tree   *)
(* index and the event table unchanged.                                    *)
(***************************************************************************)
C6_SetTextOnStructural ==
    [][(/\ last'.op = "setElementText"
        /\ last'.id \in DOMAIN elements
        /\ elements[last'.id].variant \in {"Vertical", "Horizontal", "Separator", "Root"}) =>
         /\ last'.ret = "err"
         /\ ~aborted'
         /\ HostUnchanged
      ]_vars

\* setElementText has failed on a Separator while the root is still a Root
C6_Witness ==
    /\ last.op = "setElementText"
    /\ last.ret = "err"
    /\ last.text # ""
    /\ elements[last.id] = Separator
    /\ elements[0] = Root

(***************************************************************************)
(* C7.  createElement(id, tag) with a tag of the vocabulary stores the     *)
(* matching variant, with empty text when it carries one, at id and        *)
(* returns id, leaving the other entries alone; with any other tag it      *)
(* returns an error and leaves the arena unchanged.                        *)
(***************************************************************************)
\* the variant the vocabulary names by each tag
C7_VariantOf ==
    [t \in {"label", "button", "vertical", "horizontal", "hidden", "comment",
            "separator", "text-edit"} |->
        CASE t = "label" -> "Label"
          [] t = "button" -> "Button"
          [] t = "vertical" -> "Vertical"
          [] t = "horizontal" -> "Horizontal"
          [] t = "hidden" -> "Hidden"
          [] t = "comment" -> "Comment"
          [] t = "separator" -> "Separator"
          [] t = "text-edit" -> "TextEdit"]

C7_CreateElement ==
    [][(last'.op = "createElement") =>
         IF last'.tag \in DOMAIN C7_VariantOf
         THEN /\ last'.ret = "ok"
              /\ last'.value = last'.id
              /\ DOMAIN elements' = DOMAIN elements \cup {last'.id}
              /\ elements'[last'.id] =
                   IF C7_VariantOf[last'.tag] \in {"Label", "Button", "Hidden", "Comment", "TextEdit"}
                   THEN [variant |-> C7_VariantOf[last'.tag], text |-> ""]
                   ELSE [variant |-> C7_VariantOf[last'.tag]]
              /\ \A i \in DOMAIN elements \ {last'.id} : elements'[i] = elements[i]
         ELSE /\ last'.ret = "err"
              /\ elements' = elements
      ]_vars

\* an unknown tag was refused for an id that holds a text-edit with its text set
C7_Witness ==
    /\ last.op = "createElement"
    /\ last.ret = "err"
    /\ last.id \in DOMAIN elements
    /\ elements[last.id] = TextEdit("hi")

(***************************************************************************)
(* C8.  patchProp(id, key, prev, next) on an element of the arena, with    *)
(* key one of onClick, onHover, onInput, leaves the binding of id for that *)
(* key at next when next is callable and absent otherwise, whatever prev   *)
(* and the previous binding are; the other two bindings of id and the      *)
(* bindings of the other ids are unchanged.                                *)
(***************************************************************************)
C8_PatchPropBinds ==
    [][(/\ last'.op = "patchProp"
        /\ last'.id \in DOMAIN elements
        /\ last'.key \in {"onClick", "onHover", "onInput"}) =>
         /\ last'.ret = "ok"
         /\ ~aborted'
         /\ BindingOf(element_events', last'.id, last'.key) =
              (IF last'.next.kind = "function" THEN last'.next ELSE None)
         /\ \A k \in {"onClick", "onHover", "onInput"} \ {last'.key} :
              BindingOf(element_events', last'.id, k) = BindingOf(element_events, last'.id, k)
         /\ \A i \in Ids \ {last'.id} :
              /\ i \in DOMAIN element_events' <=> i \in DOMAIN element_events
              /\ \A k \in {"onClick", "onHover", "onInput"} :
                   BindingOf(element_events', i, k) = BindingOf(element_events, i, k)
      ]_vars

\* a binding was cleared by a patch whose prev is not the function that was
\* bound, while another binding of the element and one of another element stay
C8_Witness ==
    /\ last.op = "patchProp"
    /\ last.ret = "ok"
    /\ last.key = "onClick"
    /\ last.next = JsString
    /\ last.prev = JsNull
    /\ element_events[last.id].hover # None
    /\ element_events[last.id].click = None

(***************************************************************************)
(* The frame last run, as the properties read it.                          *)
(***************************************************************************)
\* the elements reachable from those of S through the child lists
RECURSIVE ReachableFrom(_, _)
ReachableFrom(ch, S) ==
    LET more == S \cup {c \in Ids : \E p \in S \cap DOMAIN ch : Occurrences(ch[p], c) # {}} IN
    IF more = S THEN S ELSE ReachableFrom(ch, more)

\* the widgets the frame emitted for element e that the toolkit reported clicked
ClicksReported(e) ==
    {i \in 1..Len(last.out) :
        /\ last.out[i].id = e
        /\ last.out[i].prim \in {"Label", "Button", "TextEdit"}
        /\ last.out[i].response.clicked}

\* the invocations of the callback of element e for key in the frame
Invocations(e, key) ==
    {i \in 1..Len(last.calls) : last.calls[i].id = e /\ last.calls[i].key = key}

\* element e has a callback bound for onClick
ClickBound(e) == e \in DOMAIN element_events /\ element_events[e].click # None

(***************************************************************************)
(* C9 as stated.  For every element reachable from the root that has       *)
(* onClick bound, a frame in which exactly one click is reported for it    *)
(* invokes its callback exactly once, and a frame in which no click is     *)
(* reported for it invokes its callback zero times.                        *)
(***************************************************************************)
C9_AsStated ==
    (last.op = "update") =>
        \A e \in ReachableFrom(elements_children, {0}) :
            ClickBound(e) =>
                /\ (Cardinality(ClicksReported(e)) = 1) => (Cardinality(Invocations(e, "onClick")) = 1)
                /\ (ClicksReported(e) = {}) => (Invocations(e, "onClick") = {})

(***************************************************************************)
(* C9 as amended.  The same for every such element that is not a Root, a   *)
(* Vertical or a Horizontal: a click reported for its widget invokes its   *)
(* callback exactly once in the frame, and no click reported for it        *)
(* invokes it zero times.                                                  *)
(***************************************************************************)
C9_ClickDispatch ==
    (last.op = "update") =>
        \A e \in ReachableFrom(elements_children, {0}) :
            (ClickBound(e) /\ elements[e].variant \notin {"Root", "Vertical", "Horizontal"}) =>
                /\ (Cardinality(ClicksReported(e)) = 1) => (Cardinality(Invocations(e, "onClick")) = 1)
                /\ (ClicksReported(e) = {}) => (Invocations(e, "onClick") = {})

\* a frame went through in which, of two buttons with onClick bound, one was
\* clicked and called once and the other was hovered only and not called
C9_Witness ==
    /\ last.op = "update"
    /\ last.ret = "ok"
    /\ \E e \in Ids, f \in Ids :
         /\ e # f
         /\ ClickBound(e) /\ ClickBound(f)
         /\ elements[e].variant = "Button" /\ elements[f].variant = "Button"
         /\ Cardinality(ClicksReported(e)) = 1
         /\ Cardinality(Invocations(e, "onClick")) = 1
         /\ ClicksReported(f) = {}
         /\ \E i \in 1..Len(last.out) : last.out[i].id = f /\ last.out[i].response.hovered
         /\ Invocations(f, "onClick") = {}

(***************************************************************************)
(* C10.  When a callback invocation fails during the dispatch of a frame,  *)
(* the process does not abort, the frame completes, and every sibling that *)
(* follows the element of the failed callback is still rendered.           *)
(***************************************************************************)
\* the elements the frame emitted something for
Rendered == {last.out[i].id : i \in 1..Len(last.out)}

\* the siblings after e in the child list that holds it
LaterSiblings(ch, e) ==
    {s \in Ids : \E p \in DOMAIN ch : \E i \in 1..Len(ch[p]), j \in 1..Len(ch[p]) :
                    i < j /\ ch[p][i] = e /\ ch[p][j] = s}

C10_FailureIsCaught ==
    (last.op = "update" /\ \E i \in 1..Len(last.calls) : last.calls[i].threw) =>
        /\ ~aborted
        /\ last.ret = "ok"
        /\ \A i \in 1..Len(last.calls) :
             last.calls[i].threw =>
                \A s \in LaterSiblings(elements_children, last.calls[i].id) :
                    (elements[s].variant \in {"Label", "Button", "TextEdit", "Separator",
                                              "Vertical", "Horizontal"}) => s \in Rendered

(***************************************************************************)
(* Callbacks that call node-ops.                                           *)
(***************************************************************************)
IsFrame == last.op = "update"

\* the node-ops of the last frame that callbacks called during dispatch,
\* and those that ran as microtasks
OpsAt(at) == SelectSeq(last.ops, LAMBDA o : o.at = at)

\* C11: a node-op that a callback calls while the traversal dispatches it
\* is applied or deferred, and never aborts the process or the traversal:
\* a call that succeeds outside a traversal (alone = "ok") does not end in
\* a panic when it is made from inside a callback.
C11_ReentrantOpIsSafe ==
    IsFrame =>
        \A i \in 1..Len(last.ops) :
            (last.ops[i].at = "dispatch" /\ last.ops[i].alone = "ok")
                => last.ops[i].ret = "ok"

\* the calls of the last frame whose function queued a microtask
Scheduled == SelectSeq(last.calls, LAMBDA c : c.fn.body = "schedules")

\* what a node-op that returned Ok has made true of the host
Applied(c) ==
    CASE c.op = "createElement" ->
           c.id \in DOMAIN elements /\ elements[c.id] = ElementForTag(c.tag)
      [] c.op = "insertElement" -> Contains(ChildList(elements_children, c.parent), c.child)
      [] c.op = "removeElement" -> ParentsOf(elements_children, c.child) = {}
      [] c.op = "setElementText" -> elements[c.id].text = c.text
      [] c.op = "patchProp" -> BindingOf(element_events, c.id, c.key) = Binding(c.next)

\* C12: the microtask flush of a frame runs after the traversal and the
\* dispatch of that frame and before the frame ends: every node-op that a
\* callback of the frame queued has run, in the order queued, when the
\* frame is over, and what the last of them did is in the arena, the tree
\* index or the event table that the next frame starts from.
C12_FlushEachFrame ==
    (IsFrame /\ last.ret = "ok") =>
        LET ran == OpsAt("microtask") IN
        /\ Len(ran) = Len(Scheduled)
        /\ \A i \in 1..Len(ran) :
              ran[i].cmd = Scheduled[i].fn.cmd /\ ran[i].from = Scheduled[i].id
        /\ (Len(ran) > 0 /\ ran[Len(ran)].ret = "ok") => Applied(ran[Len(ran)].cmd)

\* a frame in which a clicked label queued setElementText, which ran and
\* changed the text before the frame ended
C12_Witness ==
    /\ IsFrame /\ last.ret = "ok"
    /\ \E i \in 1..Len(last.ops) :
         /\ last.ops[i].at = "microtask"
         /\ last.ops[i].cmd.op = "setElementText"
         /\ last.ops[i].ret = "ok"
         /\ elements[last.ops[i].cmd.id].text = "hi"
         /\ \E j \in 1..Len(last.out) :
              /\ last.out[j].prim = "Label"
              /\ last.out[j].id = last.ops[i].cmd.id
              /\ last.out[j].text = ""

(***************************************************************************)
(* Rendering.                                                              *)
(***************************************************************************)
\* the elements the traversal comes to: the root, and the children of the
\* Root, Vertical and Horizontal elements it comes to
RECURSIVE WalkedFrom(_, _, _)
WalkedFrom(el, ch, S) ==
    LET more == S \cup {c \in Ids : \E p \in S \cap DOMAIN ch \cap DOMAIN el :
                                       /\ el[p].variant \in ContainerVariants
                                       /\ Contains(ch[p], c)} IN
    IF more = S THEN S ELSE WalkedFrom(el, ch, more)

Walked == WalkedFrom(elements, elements_children, {0})

\* the places of the frame's output that belong to element e
Emitted(out, e) == {i \in 1..Len(out) : out[i].id = e}

\* the tree: root [1: Vertical [2: Label]]
VerticalWithLabel ==
    /\ ChildList(elements_children, 0) = <<1>>
    /\ elements[1] = Vertical
    /\ ChildList(elements_children, 1) = <<2>>
    /\ elements[2].variant = "Label"

\* C13, first half: a tree built with createElement and insertElement is
\* rendered by a traversal from the root: a Vertical with one Label child
\* under the root yields one layout scope that contains one label.
C13_RendersBuiltTree ==
    (IsFrame /\ last.ret = "ok" /\ VerticalWithLabel) =>
        /\ Len(last.out) = 3
        /\ last.out[1].prim = "open" /\ last.out[1].id = 1 /\ last.out[1].scope = "Vertical"
        /\ last.out[2].prim = "Label" /\ last.out[2].id = 2
        /\ last.out[2].text = elements[2].text
        /\ last.out[3].prim = "close" /\ last.out[3].id = 1

\* C13, second half: after a successful setElementText(id, text) on a Label
\* that the traversal reaches from the root, the next traversal renders
\* that label once, with exactly the new text.
C13_RendersNewText ==
    [][(/\ last.op = "setElementText" /\ last.ret = "ok"
        /\ elements[last.id].variant = "Label"
        /\ last.id \in Walked
        /\ last'.op = "update" /\ last'.ret = "ok")
       => \E i \in 1..Len(last'.out) :
            /\ Emitted(last'.out, last.id) = {i}
            /\ last'.out[i].prim = "Label"
            /\ last'.out[i].text = last.text]_vars

Following(ch, p, node) ==
    LET i == Position(ch[p], node) + 1 IN
    IF i < Len(ch[p]) THEN ch[p][i + 1] ELSE Null

\* parentNode(id) returns the one parent whose list holds id, or null
ParentNodeAnswer ==
    (last.op = "parentNode" /\ last.ret = "ok") =>
        IF ParentsOf(elements_children, last.node) = {}
        THEN last.value = Null
        ELSE ParentsOf(elements_children, last.node) = {last.value}

\* nextSibling(id) returns the id right after id in its parent's list, or
\* null when id is the last child or has no parent
NextSiblingAnswer ==
    (last.op = "nextSibling" /\ last.ret = "ok") =>
        IF ParentsOf(elements_children, last.node) = {}
        THEN last.value = Null
        ELSE \A p \in ParentsOf(elements_children, last.node) :
                last.value = Following(elements_children, p, last.node)

\* right after a successful insertElement(child, parent, anchor),
\* parentNode(child) = parent and nextSibling(child) = anchor
QueriesAfterInsert ==
    (/\ last.op = "insertElement" /\ last.ret = "ok"
     /\ last'.op \in {"parentNode", "nextSibling"} /\ last'.ret = "ok"
     /\ last'.node = last.child)
    => IF last'.op = "parentNode" THEN last'.value = last.parent
       ELSE last'.value = (IF last.anchor = NoAnchor THEN Null ELSE last.anchor)

\* C14: parentNode(id) returns the id of the one parent whose child list
\* contains id, or null when no list contains it; nextSibling(id) returns
\* the id that immediately follows id in its parent's child list, or null
\* when id is the last child or has no parent; right after a successful
\* insertElement(child, parent, anchor), parentNode(child) = parent and
\* nextSibling(child) = anchor (null when appended).
C14_ReadQueries ==
    /\ [](ParentNodeAnswer /\ NextSiblingAnswer)
    /\ [][QueriesAfterInsert]_vars

\* nextSibling of a child that has a sibling after it returned that sibling
C14_Witness ==
    /\ last.op = "nextSibling" /\ last.ret = "ok" /\ last.value # Null
    /\ \E p \in ParentsOf(elements_children, last.node) :
         /\ p # last.node
         /\ last.value = Following(elements_children, p, last.node)

(***************************************************************************)
(* The shape of the tree index.                                            *)
(***************************************************************************)
\* C15: after any sequence of node-ops the root, id 0, is in no parent's
\* child list.
C15_RootIsNoChild == ParentsOf(elements_children, 0) = {}

\* the children of e, their children, and so on
Descendants(ch, e) ==
    ReachableFrom(ch, {c \in Ids : Contains(ChildList(ch, e), c)})

\* C16: after any sequence of node-ops the parent/child relation is a
\* forest: no element is its own parent and none is an ancestor of itself.
C16_Forest == \A e \in Ids : e \notin Descendants(elements_children, e)

(***************************************************************************)
(* The value inspector.                                                    *)
(***************************************************************************)
\* the value logged is the object {a: self}
SelfReferential ==
    last.heap[last.value] = [kind |-> "object", members |-> <<last.value>>]

\* C17: value_to_string terminates on every finite value graph, cyclic
\* ones included; each distinct array or object is expanded at most once;
\* for the self-referential object {a: self} the output holds exactly one
\* circular marker.
C17_InspectorTerminates ==
    (last.op = "log") =>
        /\ last.returned
        /\ \A o \in ObjIds : Cardinality(Occurrences(last.expanded, o)) <= 1
        /\ SelfReferential =>
              /\ Cardinality(Occurrences(last.out, CircularMarker)) = 1
              /\ last.out = <<"{", "a", ":", CircularMarker, "}">>

\* {a: self} was logged
C17_Witness ==
    /\ last.op = "log" /\ SelfReferential /\ last.returned
    /\ last.expanded = <<last.value>>

(***************************************************************************)
(* The order of a traversal.                                               *)
(***************************************************************************)
RECURSIVE PreOrder(_, _, _)
RECURSIVE PreOrderOf(_, _, _, _)

\* the pre-order walks of the children from the i-th on, one after another
PreOrderOf(el, ch, children, i) ==
    IF i > Len(children) THEN <<>>
    ELSE PreOrder(el, ch, children[i]) \o PreOrderOf(el, ch, children, i + 1)

\* what a depth-first pre-order walk from e emits: one primitive for a
\* Label, Button or TextEdit, one divider for a Separator, nothing for a
\* Hidden or Comment, and for a Vertical or Horizontal its scope opened,
\* its children in the order of its child list, its scope closed
PreOrder(el, ch, e) ==
    LET v == el[e].variant IN
    CASE v = "Root" -> PreOrderOf(el, ch, ChildList(ch, e), 1)
      [] v \in {"Vertical", "Horizontal"} ->
           <<[prim |-> "open", id |-> e]>>
               \o PreOrderOf(el, ch, ChildList(ch, e), 1)
               \o <<[prim |-> "close", id |-> e]>>
      [] v \in {"Label", "Button", "TextEdit", "Separator"} -> <<[prim |-> v, id |-> e]>>
      [] v \in {"Hidden", "Comment"} -> <<>>

\* the primitives of the last frame, each with the element it was emitted for
Primitives == [i \in 1..Len(last.out) |-> [prim |-> last.out[i].prim, id |-> last.out[i].id]]

\* C18: a traversal from root 0 visits the elements depth-first in
\* pre-order, following the child lists in order through Root, Vertical and
\* Horizontal elements; it emits exactly one primitive for each visited
\* Label, Button and TextEdit, one divider for each Separator and nothing
\* for Hidden and Comment, in visit order, every Vertical/Horizontal scope
\* opened before and closed after its children.
C18_PreOrderTraversal ==
    (IsFrame /\ last.ret = "ok") => Primitives = PreOrder(elements, elements_children, 0)

\* a frame that walked into a scope and emitted a widget inside it
C18_Witness ==
    /\ IsFrame /\ last.ret = "ok"
    /\ \E i \in 1..Len(last.out) :
         /\ last.out[i].prim = "open"
         /\ i + 2 <= Len(last.out)
         /\ last.out[i + 1].prim \in {"Label", "Button", "TextEdit", "Separator"}
         /\ last.out[i + 2].prim = "close" /\ last.out[i + 2].id = last.out[i].id

(***************************************************************************)
(* What a frame changes.                                                   *)
(***************************************************************************)
\* C19: a traversal during which no callback issues a node-op leaves the
\* tree index, the event table, the set of arena ids and the variant of
\* every element as they were; it may change the text of TextEdit elements
\* and nothing else.
C19_FrameEffect ==
    [][(last'.op = "update" /\ last'.ops = <<>>) =>
           /\ elements_children' = elements_children
           /\ element_events' = element_events
           /\ DOMAIN elements' = DOMAIN elements
           /\ \A id \in DOMAIN elements :
                 /\ elements'[id].variant = elements[id].variant
                 /\ elements'[id] # elements[id] => elements[id].variant = "TextEdit"]_vars

\* a frame that called a callback, which issued no node-op
C19_Witness ==
    /\ IsFrame /\ last.ret = "ok"
    /\ last.ops = <<>>
    /\ Len(last.calls) > 0

(***************************************************************************)
(* When callbacks are called.                                              *)
(***************************************************************************)
\* the callbacks called in the last frame were bound on elements that the
\* traversal from the root comes to
CalledOnlyWhereWalked ==
    IsFrame => \A i \in 1..Len(last.calls) : last.calls[i].id \in Walked

\* a node-op calls no callback
NodeOpsCallNothing ==
    (last'.op # "update") => ("calls" \notin DOMAIN last')

\* C20: a callback is invoked only while a traversal is running and only
\* for an element that this traversal visits: no node-op ever invokes a
\* callback, and an element that is not reachable from root 0 (never
\* inserted, or detached by removeElement) never has its callbacks invoked
\* even though its binding is still stored.
C20_CallbacksOnlyInTraversal ==
    /\ []CalledOnlyWhereWalked
    /\ [][NodeOpsCallNothing]_vars

\* a frame that called a callback while a detached element still had its
\* binding stored, and called none for it
C20_Witness ==
    /\ IsFrame /\ last.ret = "ok"
    /\ Len(last.calls) > 0
    /\ \E e \in Ids \ {0} :
         /\ ParentsOf(elements_children, e) = {}
         /\ ClickBound(e)
         /\ elements[e].variant = "Button"
         /\ Invocations(e, "onClick") = {}

(***************************************************************************)
(* The input callback.                                                     *)
(***************************************************************************)
\* element e has a callback bound for onInput
InputBound(e) == e \in DOMAIN element_events /\ element_events[e].input # None

\* the widgets the frame emitted for element e that the toolkit reported to
\* have lost the focus
FocusLosses(e) ==
    {i \in 1..Len(last.out) :
        /\ last.out[i].id = e
        /\ last.out[i].prim = "TextEdit"
        /\ last.out[i].response.lost_focus}

\* C21: for a TextEdit element with onInput bound, in a frame where the
\* toolkit reports a focus loss for its widget, the input callback is
\* invoked exactly once with a single argument equal to the element's text
\* payload after the widget's live edit of that frame; an onInput binding
\* on an element that is not a TextEdit is never invoked.
C21_InputDispatch ==
    IsFrame =>
        /\ \A e \in Ids :
             (InputBound(e) /\ elements[e].variant = "TextEdit" /\ FocusLosses(e) # {}) =>
                /\ Cardinality(Invocations(e, "onInput")) = 1
                /\ \A i \in Invocations(e, "onInput"), j \in FocusLosses(e) :
                     last.calls[i].args = <<last.out[j].text>>
        /\ \A i \in 1..Len(last.calls) :
             last.calls[i].key = "onInput" => elements[last.calls[i].id].variant = "TextEdit"

(***************************************************************************)
(* What removeElement changes.                                             *)
(***************************************************************************)
\* the parents whose child list differs between the tree indexes ch and ch2
ChangedLists(ch, ch2) ==
    {p \in Ids : ChildList(ch, p) # ChildList(ch2, p)}

\* C22: removeElement(child) changes only the child list of child's former
\* parent: the arena still contains child and all its descendants, child's
\* own child list and every descendant's parent relation are unchanged,
\* and the event bindings of child and its descendants are unchanged.
C22_RemoveKeepsSubtree ==
    [][(last'.op = "removeElement") =>
          LET child == last'.child
              below == Descendants(elements_children, child) IN
          /\ ChangedLists(elements_children, elements_children')
                \subseteq ParentsOf(elements_children, child)
          /\ Cardinality(ChangedLists(elements_children, elements_children')) <= 1
          /\ DOMAIN elements_children' = DOMAIN elements_children
          /\ \A e \in ({child} \cup below) \cap DOMAIN elements :
                e \in DOMAIN elements' /\ elements'[e] = elements[e]
          /\ ChildList(elements_children', child) = ChildList(elements_children, child)
          /\ \A d \in below :
                ParentsOf(elements_children', d) = ParentsOf(elements_children, d)
          /\ \A e \in {child} \cup below :
                /\ e \in DOMAIN element_events' <=> e \in DOMAIN element_events
                /\ \A k \in EventKeys :
                     BindingOf(element_events', e, k) = BindingOf(element_events, e, k)
      ]_vars

(***************************************************************************)
(* createElement on an id that has an entry.                               *)
(***************************************************************************)
\* C23: createElement(id, tag) on an id that already has an arena entry
\* replaces that entry with a fresh element of the new tag (empty text),
\* and leaves unchanged the position of id in its parent's child list, the
\* child list of id, and the event bindings of id.
C23_RecreateReplaces ==
    [][(/\ last'.op = "createElement"
        /\ last'.id \in DOMAIN elements
        /\ last'.tag \in DOMAIN C7_VariantOf) =>
          LET id == last'.id IN
          /\ last'.ret = "ok"
          /\ elements'[id].variant = C7_VariantOf[last'.tag]
          /\ "text" \in DOMAIN elements'[id] => elements'[id].text = ""
          /\ DOMAIN elements_children' = DOMAIN elements_children
          /\ \A p \in DOMAIN elements_children :
                Occurrences(elements_children'[p], id) = Occurrences(elements_children[p], id)
          /\ ChildList(elements_children', id) = ChildList(elements_children, id)
          /\ id \in DOMAIN element_events' <=> id \in DOMAIN element_events
          /\ \A k \in EventKeys :
                BindingOf(element_events', id, k) = BindingOf(element_events, id, k)
      ]_vars

\* an element that is a child of the root, has a child and has onClick bound
\* was created again as a text-edit, which no element of the tree was
C23_Witness ==
    /\ last.op = "createElement"
    /\ last.ret = "ok"
    /\ last.id # 0
    /\ elements[last.id] = TextEdit("")
    /\ Contains(ChildList(elements_children, 0), last.id)
    /\ ChildList(elements_children, last.id) # <<>>
    /\ ClickBound(last.id)

(***************************************************************************)
(* Where the entries of the event table come from.                         *)
(***************************************************************************)
\* the ids that get an entry of the event table in the step
NewEntries == DOMAIN element_events' \ DOMAIN element_events

\* C24 as stated: an entry of the event table for an id is created only by
\* a patchProp on that id whose key is onClick, onHover or onInput; a
\* patchProp with any other key leaves the event table unchanged (no entry
\* created, no handle changed).
C24_AsStated ==
    [][/\ \A id \in NewEntries :
            /\ last'.op = "patchProp"
            /\ last'.id = id
            /\ last'.key \in {"onClick", "onHover", "onInput"}
       /\ (last'.op = "patchProp" /\ last'.key \notin {"onClick", "onHover", "onInput"}) =>
            element_events' = element_events
      ]_vars

\* C24 as amended: an entry of the event table for an id is created only by
\* a patchProp on that id, whatever its key; a patchProp with a key other
\* than onClick, onHover and onInput changes no handle: it creates an entry
\* with no handle for an id that has no entry and leaves every entry that
\* exists as it was.
C24_EntriesByPatchProp ==
    [][/\ \A id \in NewEntries :
            /\ last'.op = "patchProp"
            /\ last'.id = id
       /\ (last'.op = "patchProp" /\ last'.key \notin {"onClick", "onHover", "onInput"}) =>
            /\ \A id \in NewEntries : element_events'[id] = NoEvents
            /\ \A id \in DOMAIN element_events :
                 id \in DOMAIN element_events' /\ element_events'[id] = element_events[id]
      ]_vars

\* a patchProp with another key and a function came to a created element
\* whose click handle is bound, and left it bound
C24_Witness ==
    /\ last.op = "patchProp"
    /\ last.ret = "ok"
    /\ last.key \notin {"onClick", "onHover", "onInput"}
    /\ last.next.kind = "function"
    /\ last.id # 0
    /\ ClickBound(last.id)
    /\ element_events[last.id].hover = None

(***************************************************************************)
(* Whose bindings an interaction goes to.                                  *)
(***************************************************************************)
\* element e has a callback bound for onHover
HoverBound(e) == e \in DOMAIN element_events /\ element_events[e].hover # None

\* the widgets the frame emitted for the elements of S
WidgetsOf(S) ==
    {i \in 1..Len(last.out) :
        last.out[i].prim \in {"Label", "Button", "TextEdit"} /\ last.out[i].id \in S}

\* those of them that the toolkit reported clicked, and hovered
ClickedOf(S) == {i \in WidgetsOf(S) : last.out[i].response.clicked}
HoveredOf(S) == {i \in WidgetsOf(S) : last.out[i].response.hovered}

\* e and the elements below it
Under(e) == {e} \cup Descendants(elements_children, e)

\* C25 as stated: each interaction result is dispatched only to the
\* bindings of the element that emitted the widget: a callback bound on a
\* Vertical, Horizontal or Root element is not invoked because a widget of
\* one of its descendants was clicked or hovered.
C25_AsStated ==
    IsFrame =>
        \A e \in Ids :
            /\ Invocations(e, "onClick") # {} => ClickedOf({e}) # {}
            /\ Invocations(e, "onHover") # {} => HoveredOf({e}) # {}

\* C25 as amended: each interaction result is dispatched only to the
\* bindings of the element that emitted the widget and of the Vertical,
\* Horizontal and Root elements above it: a callback bound on an element is
\* invoked for a click or hover only of a widget of that element or of one
\* of its descendants, and in a frame that completes a bound callback of an
\* element the traversal visits is invoked once for each such widget.
C25_DispatchToEmitterAndAbove ==
    IsFrame =>
        \A e \in Ids :
            /\ Invocations(e, "onClick") # {} => ClickedOf(Under(e)) # {}
            /\ Invocations(e, "onHover") # {} => HoveredOf(Under(e)) # {}
            /\ (last.ret = "ok" /\ e \in Walked /\ ClickBound(e)) =>
                  Cardinality(Invocations(e, "onClick")) = Cardinality(ClickedOf(Under(e)))
            /\ (last.ret = "ok" /\ e \in Walked /\ HoverBound(e)) =>
                  Cardinality(Invocations(e, "onHover")) = Cardinality(HoveredOf(Under(e)))

\* a frame in which a button below a container was clicked while its sibling
\* button was not: the button's callback and the container's were invoked
\* once, the sibling's was not
C25_Witness ==
    /\ IsFrame /\ last.ret = "ok"
    /\ \E c \in Ids, b \in Ids, s \in Ids :
         /\ b # s
         /\ elements[c].variant \in {"Root", "Vertical", "Horizontal"}
         /\ elements[b].variant = "Button" /\ elements[s].variant = "Button"
         /\ b \in Descendants(elements_children, c)
         /\ ClickBound(c) /\ ClickBound(b) /\ ClickBound(s)
         /\ ClickedOf({b}) # {} /\ ClickedOf({s}) = {} /\ HoveredOf({s}) # {}
         /\ Cardinality(Invocations(c, "onClick")) = 1
         /\ Cardinality(Invocations(b, "onClick")) = 1
         /\ Invocations(s, "onClick") = {}

(***************************************************************************)
(* When the value inspector writes the circular marker.                    *)
(***************************************************************************)
\* the arrays and objects that are members of those of S
MembersOf(heap, S) ==
    {o \in ObjIds : \E v \in S : \E i \in 1..Len(heap[v].members) : heap[v].members[i] = o}

\* the arrays and objects nested in those of S, at any depth
RECURSIVE NestedIn(_, _)
NestedIn(heap, S) ==
    LET more == S \cup MembersOf(heap, S) IN
    IF more = S THEN MembersOf(heap, S) ELSE NestedIn(heap, more)

\* some array or object of the logged value is nested inside itself
HasCycle(heap, v) ==
    \E o \in {v} \cup NestedIn(heap, {v}) : o \in NestedIn(heap, {o})

\* C26: the value inspector emits the circular marker only for a value that
\* is nested inside itself (a true reference cycle); an array or object
\* that is referenced twice in the same value without any cycle (for
\* example [a, a]) is formatted in full at both places.
\* (stated for the runs in which no two arrays or objects share their
\* identity hash)
C26_CircularOnlyForCycles ==
    (/\ last.op = "log"
     /\ \A o \in ObjIds, q \in ObjIds : last.hash[o] = last.hash[q] => o = q
     /\ ~HasCycle(last.heap, last.value)) =>
        \A i \in 1..Len(last.out) : last.out[i] # CircularMarker

(***************************************************************************)
(* The root.                                                               *)
(***************************************************************************)
\* C27: after any sequence of node-ops, the arena entry at id 0 exists and
\* has variant Root, so every traversal starts at a Root element.
C27_RootStaysRoot ==
    0 \in DOMAIN elements /\ elements[0].variant = "Root"

(***************************************************************************)
(* What the adapter's queries return.                                      *)
(***************************************************************************)
\* C28: for every node object handed to the framework by the nodeOps
\* adapter (created by createElement, createText or createComment, or the
\* root object {id: 0}), the adapter's parentNode(node) and
\* nextSibling(node) return the node object whose id the host query
\* returned, and return undefined only when the host query returned null.
C28_AdapterQueries ==
    (last.op \in {"nodeOps.parentNode", "nodeOps.nextSibling"}) =>
        /\ last.host # Null => last.value = Node(last.host)
        /\ last.value = Undefined => last.host = Null

(***************************************************************************)
(* The tree index names elements of the arena only.                        *)
(***************************************************************************)
\* every id that is a parent key of the tree index or in a child list has
\* an arena entry
IndexedAreInArena ==
    \A p \in DOMAIN elements_children :
        /\ p \in DOMAIN elements
        /\ \A i \in 1..Len(elements_children[p]) : elements_children[p][i] \in DOMAIN elements

\* a step deletes no arena entry
NoEntryDeleted == DOMAIN elements \subseteq DOMAIN elements'

\* the elements a frame came to, and those it emitted something for, have
\* an arena entry
WalkFindsAll ==
    IsFrame => (Walked \cup Rendered) \subseteq DOMAIN elements

\* C29: after any sequence of node-ops, every id that appears in the tree
\* index, as a parent key or inside a child list, has an arena entry, and
\* no operation ever deletes an arena entry; hence a traversal never fails
\* to look up an element it reaches.
C29_IndexWithinArena ==
    /\ []IndexedAreInArena
    /\ [][NoEntryDeleted]_vars
    /\ []WalkFindsAll

\* a frame went through below the root after an element was created and
\* inserted, while an id has no arena entry
C29_Witness ==
    /\ IsFrame /\ last.ret = "ok"
    /\ Walked # {0}
    /\ DOMAIN elements # Ids

=============================================================================
